---- MODULE Spec2Model ----
(***************************************************************************)
(* Model of weather_days_KOA2_app.py: a Streamlit script that keeps a      *)
(* registry of observation sites (a dict persisted as locations.json) and  *)
(* fetches observed and normal series for the selected site.               *)
(*                                                                         *)
(* The host re-executes the script top to bottom on every interaction, so  *)
(* every interaction is one run: the module-level statements (lines 14-39) *)
(* and then the handler of the pressed button.  Python dicts are objects   *)
(* on a heap and are handled by reference; a dict itself is an ordered     *)
(* sequence of <<key, value>> pairs with distinct keys.  Floats are pairs  *)
(* <<degrees, fraction in 1e-8 degrees>>.  Non-ASCII literals of the       *)
(* source are transliterated.                                              *)
(***************************************************************************)
EXTENDS Integers, Sequences, FiniteSets, TLC

\* ---------------------------------------------------------------- bounds
MaxLat == 1
MaxDate == 2
MaxSel == 2

\* ------------------------------------------------------- python dict/json
\* None, for variables that otherwise hold a non-empty sequence
None == <<>>
\* locations.json: whether it exists, and its text (a sequence of members)
NoFile == [exists |-> FALSE, text |-> <<>>]
FileWith(text) == [exists |-> TRUE, text |-> text]
NoExc == ""

HasKey(d, k) == \E i \in 1..Len(d) : d[i][1] = k
DictKeys(d) == [i \in 1..Len(d) |-> d[i][1]]
DictGet(d, k) == d[CHOOSE i \in 1..Len(d) : d[i][1] = k][2]
DictSetKeepOld(d, k, v) ==
  IF HasKey(d, k) THEN d ELSE Append(d, <<k, v>>)

DictSetReplaceAll(d, k, v) == <<<<k, v>>>>

DictSet(d, k, v) ==
  IF HasKey(d, k)
  THEN [i \in 1..Len(d) |-> IF d[i][1] = k THEN <<k, v>> ELSE d[i]]
  ELSE Append(d, <<k, v>>)

RECURSIVE DictMerge(_, _)
DictMerge(a, b) ==
  IF b = <<>> THEN a
  ELSE DictMerge(DictSet(a, Head(b)[1], Head(b)[2]), Tail(b))

\* truth value of a str (text_input) and of a float (number_input)
TruthyStr(s) == s # ""
TruthyFloatAlways(x) == TRUE
TruthyFloat(x) == x # <<0, 0>>

\* json.dump(locations, f, ensure_ascii=False, indent=2): one member per
\* dict entry, in insertion order, the key literally and the value as a
\* two-number array
JsonDump(d) ==
  [i \in 1..Len(d) |-> [key |-> d[i][1], array |-> d[i][2]]]

\* json.load(f): a new dict built member by member (a repeated key keeps
\* its first position and its last value)
RECURSIVE JsonLoad(_)
JsonLoad(text) ==
  IF text = <<>> THEN <<>>
  ELSE LET m == text[Len(text)]
       IN DictSet(JsonLoad(SubSeq(text, 1, Len(text) - 1)), m.key, m.array)

\* ------------------------------------------------------ module constants
DefaultLocations ==
  << <<"KOA yama1 (Seba, 1035m)", <<<<36, 10615778>>, <<137, 87876940>>>> >>,
     <<"KOA yama2 (Seba, 1017m)", <<<<36, 10599167>>, <<137, 87870830>>>> >>,
     <<"KOA yama3 (Seba, 1007m)", <<<<36, 10616111>>, <<137, 87908890>>>> >>,
     <<"KOA yama4 (Seba, 1005m)", <<<<36, 10617778>>, <<137, 87896670>>>> >>,
     <<"KOA5WW (West Wing, 783m)", <<<<35, 89755278>>, <<137, 95605530>>>> >>,
     <<"KOA6 (Tera, 806m)", <<<<35, 87172194>>, <<138, 1640280>>>> >>,
     <<"KOA7 (Tera, 791m)", <<<<35, 87127222>>, <<138, 1608330>>>> >> >>

ELEMENT_OPTIONS ==
  << <<"mean temp (TMP_mea)", "TMP_mea">>,
     <<"max temp (TMP_max)", "TMP_max">>,
     <<"min temp (TMP_min)", "TMP_min">>,
     <<"precipitation (APCP)", "APCP">>,
     <<"precipitation hi-res (APCPRA)", "APCPRA">>,
     <<"precipitation occurrence (OPR)", "OPR">>,
     <<"sunshine duration (SSD)", "SSD">>,
     <<"global solar radiation (GSR)", "GSR">>,
     <<"downward longwave radiation (DLR)", "DLR">>,
     <<"relative humidity (RH)", "RH">>,
     <<"wind speed (WIND)", "WIND">>,
     <<"snow depth (SD)", "SD">>,
     <<"snow water equivalent (SWE)", "SWE">>,
     <<"snowfall water (SFW)", "SFW">>,
     <<"forecast confidence (PTMP)", "PTMP">> >>

DefaultLabels == <<"mean temp (TMP_mea)">>

\* --------------------------------------------------------- input domains
\* Values the user gives the widgets.  A run sets the widgets its handler
\* reads; the other widgets are at their defaults ("" and 0.0 in the add
\* form, today for both dates, the preselected element).
\* Names: empty, a new site, and the name of a default site.
\* Dates: days counted from today = 1.  Refs: ids of the dict objects.
Refs == 0..2
Float(n) == <<n, 0>>
\* values of the two number inputs: 0.0 (the default) and whole degrees
Lats == {Float(n) : n \in 0..MaxLat}
Lons == {Float(0), Float(137)}
Names == {"", "Site A", "KOA yama1 (Seba, 1035m)"}
Dates == 1..MaxDate
Labels == {"mean temp (TMP_mea)", "precipitation (APCP)", "snow depth (SD)"}
ExcTexts == {"timeout", "invalid element"}
Range(s) == {s[i] : i \in 1..Len(s)}
\* the site the selectbox is set to before a fetch: the last of the list
SelectableSites(d) == {d[Len(d)][1]}
Selections ==
  {s \in UNION {[1..n -> Labels] : n \in 0..MaxSel} :
     \A i, j \in 1..Len(s) : i # j => s[i] # s[j]}

\* ------------------------------------------------------------------ state
VARIABLES
  heap,               \* object id -> dict contents (<<>> for unused ids)
  DEFAULT_LOCATIONS,  \* module global of the current run: a reference
  location_history,   \* st.session_state.location_history: a reference
  file,               \* locations.json
  loadedFrom,         \* history: branch load_locations took for the session
  pressed,            \* button pressed in the current run
  new_name, new_lat, new_lon,
  selected_location, lat, lon,
  start_date, end_date, selected_labels,
  messages,           \* st.success / st.warning / st.error shown by the run
  table,              \* columns of the dataframe shown, or None
  charts,             \* labels of the figures shown by st.pyplot
  pc, idx, records, normals, tim, tim_ref,
  caught,             \* text of the exception bound at line 139, or NoExc
  calls               \* amd.GetMetData calls issued by the run, in order

registry == <<heap, DEFAULT_LOCATIONS, location_history, file, loadedFrom>>
addForm == <<new_name, new_lat, new_lon>>
fetchForm == <<selected_location, lat, lon, start_date, end_date, selected_labels>>
output == <<messages, table, charts>>
locals == <<pc, idx, records, normals, tim, tim_ref, caught, calls>>
vars == <<registry, pressed, addForm, fetchForm, output, locals>>

Mapping == heap[location_history]

\* ------------------------------------------------------- lines 14-39
\* line 14: each run evaluates the dict display again and binds the module
\* global to the new object; objects nothing refers to any more are dropped
ExecModuleTopCached(h, dref, live) ==
  [heap |-> [r \in Refs |-> IF r \in live \cup {dref} THEN h[r] ELSE <<>>],
   DEFAULT_LOCATIONS |-> dref]

ExecModuleTop(h, dref, live) ==
  LET d == CHOOSE r \in Refs \ live : \A q \in Refs \ live : r <= q
  IN [heap |-> [r \in Refs |-> IF r = d THEN DefaultLocations
                               ELSE IF r \in live THEN h[r] ELSE <<>>],
      DEFAULT_LOCATIONS |-> d]

load_locationsDefaultOnly(h, dref, f) ==
  [heap |-> h, ref |-> dref, from |-> "default"]

\* lines 25-30: the parsed file as a new object, or the default object itself
load_locations(h, dref, f) ==
  IF f.exists
  THEN LET o == CHOOSE r \in Refs \ {dref} : \A q \in Refs \ {dref} : r <= q
       IN [heap |-> [h EXCEPT ![o] = JsonLoad(f.text)], ref |-> o, from |-> "file"]
  ELSE [heap |-> h, ref |-> dref, from |-> "default"]

\* lines 33-35
save_locations(locations) == FileWith(JsonDump(locations))

\* lines 80-82
SelectedMessage(name) == [kind |-> "success", text |-> <<"selected: ", name>>]

Idle ==
  /\ pc' = "idle" /\ idx' = 0 /\ records' = <<>> /\ normals' = <<>>
  /\ tim' = None /\ tim_ref' = None /\ caught' = NoExc /\ calls' = <<>>

AddFormDefault == new_name' = "" /\ new_lat' = Float(0) /\ new_lon' = Float(0)

FetchFormDefault(d) ==
  /\ selected_location' = d[1][1]
  /\ lat' = d[1][2][1] /\ lon' = d[1][2][2]
  /\ start_date' = 1 /\ end_date' = 1 /\ selected_labels' = DefaultLabels

Init ==
  \* the first run of the first session, started without locations.json:
  \* line 39 stores the object DEFAULT_LOCATIONS refers to
     /\ file = NoFile
     /\ heap = [r \in Refs |-> IF r = 0 THEN DefaultLocations ELSE <<>>]
     /\ DEFAULT_LOCATIONS = 0
     /\ location_history = 0
     /\ loadedFrom = "default"
     /\ pressed = "none"
     /\ new_name = "" /\ new_lat = Float(0) /\ new_lon = Float(0)
     /\ selected_location = DefaultLocations[1][1]
     /\ lat = DefaultLocations[1][2][1] /\ lon = DefaultLocations[1][2][2]
     /\ start_date = 1 /\ end_date = 1 /\ selected_labels = DefaultLabels
     /\ messages = <<SelectedMessage(DefaultLocations[1][1])>>
     /\ table = None /\ charts = <<>>
     /\ pc = "idle" /\ idx = 0 /\ records = <<>> /\ normals = <<>>
     /\ tim = None /\ tim_ref = None /\ caught = NoExc /\ calls = <<>>

\* A new session (process restart or new browser session): session_state is
\* empty, so lines 38-39 call load_locations; no button can be pressed yet.
NewSession ==
  /\ pc = "idle"
  /\ LET top == ExecModuleTop(heap, DEFAULT_LOCATIONS, {})
         ld == load_locations(top.heap, top.DEFAULT_LOCATIONS, file)
     IN /\ heap' = ld.heap
        /\ DEFAULT_LOCATIONS' = top.DEFAULT_LOCATIONS
        /\ location_history' = ld.ref
        /\ loadedFrom' = ld.from
        /\ FetchFormDefault(ld.heap[ld.ref])
        /\ messages' = <<SelectedMessage(ld.heap[ld.ref][1][1])>>
  /\ UNCHANGED file
  /\ pressed' = "none" /\ AddFormDefault
  /\ table' = None /\ charts' = <<>>
  /\ Idle

\* lines 71-77 within a run of the script
AddLocation(name, la, lo) ==
  /\ pc = "idle"
  /\ LET top == ExecModuleTop(heap, DEFAULT_LOCATIONS, {location_history})
         ok == TruthyStr(name) /\ (TruthyFloat(la) /\ TruthyFloat(lo))
         d == IF ok THEN DictSet(top.heap[location_history], name, <<la, lo>>)
              ELSE top.heap[location_history]
     IN /\ heap' = [top.heap EXCEPT ![location_history] = d]
        /\ DEFAULT_LOCATIONS' = top.DEFAULT_LOCATIONS
        /\ file' = IF ok THEN save_locations(d) ELSE file
        /\ FetchFormDefault(d)
        /\ messages' =
             << IF ok THEN [kind |-> "success", text |-> <<"added site ", name>>]
                ELSE [kind |-> "warning", text |-> <<"enter name, latitude and longitude">>],
                SelectedMessage(d[1][1]) >>
  /\ UNCHANGED <<location_history, loadedFrom>>
  /\ pressed' = "add"
  /\ new_name' = name /\ new_lat' = la /\ new_lon' = lo
  /\ table' = None /\ charts' = <<>>
  /\ Idle

\* a run in which no button is pressed (a widget was changed)
Rerun ==
  /\ pc = "idle"
  /\ LET top == ExecModuleTop(heap, DEFAULT_LOCATIONS, {location_history})
     IN /\ heap' = top.heap
        /\ DEFAULT_LOCATIONS' = top.DEFAULT_LOCATIONS
        /\ FetchFormDefault(top.heap[location_history])
        /\ messages' = <<SelectedMessage(top.heap[location_history][1][1])>>
  /\ UNCHANGED <<location_history, loadedFrom, file>>
  /\ pressed' = "none" /\ AddFormDefault
  /\ table' = None /\ charts' = <<>>
  /\ Idle

\* ------------------------------------------------------- lines 95-140
ErrorMessage(parts) == [kind |-> "error", text |-> parts]
\* line 140: f"...: {e}"
CaughtMessageGeneric(e) == ErrorMessage(<<"an error occurred">>)
CaughtMessage(e) == ErrorMessage(<<"an error occurred: ", e>>)

Lookup(options, label) == DictGet(options, label)

\* the external collaborator amd.GetMetData(code, itsu, doko, cli), when it
\* returns: one value per day of the window at the single grid point
\* (data[:, 0, 0]), and the time axis; when it raises, see GetObserved
Days == [d \in 1..(end_date - start_date + 1) |-> start_date + d - 1]
GetMetData(code, cli) ==
  [data |-> [d \in 1..Len(Days) |-> [element |-> code, cli |-> cli, day |-> Days[d]]],
   tim |-> Days]

CallSwappedBox(code, cli) ==
  [element |-> code,
   itsu |-> <<ToString(start_date), ToString(end_date)>>,
   doko |-> <<lat, lon, lat, lon>>,
   cli |-> cli]

\* lines 102-103 and the arguments of lines 110 and 112
Call(code, cli) ==
  [element |-> code,
   itsu |-> <<ToString(start_date), ToString(end_date)>>,
   doko |-> <<lat, lat, lon, lon>>,
   cli |-> cli]

ObservedKey(label) == label \o " (AMD)"
NormalKey(label) == label \o " (normal)"
ToDatetime(t) == [i \in 1..Len(t) |-> [datetime |-> t[i]]]

\* lines 96-100: the if / elif / else chain
ValidateStrict(s, e, labels) ==
  IF s > e THEN "date order" ELSE IF labels = <<>> THEN "empty selection" ELSE "ok"

ValidateNoEmpty(s, e, labels) ==
  IF s >= e THEN "date order" ELSE "ok"

Validate(s, e, labels) ==
  IF s >= e THEN "date order" ELSE IF labels = <<>> THEN "empty selection" ELSE "ok"

DateOrderError == ErrorMessage(<<"the end date must be after the start date">>)
EmptySelectionError == ErrorMessage(<<"select at least one element">>)

\* lines 95-106: validation, then the locals of the try block
FetchPress(sel, s, e, labels) ==
  /\ pc = "idle"
  /\ HasKey(Mapping, sel)
  /\ LET top == ExecModuleTop(heap, DEFAULT_LOCATIONS, {location_history})
     IN /\ heap' = top.heap
        /\ DEFAULT_LOCATIONS' = top.DEFAULT_LOCATIONS
        /\ lat' = DictGet(top.heap[location_history], sel)[1]
        /\ lon' = DictGet(top.heap[location_history], sel)[2]
  /\ UNCHANGED <<location_history, loadedFrom, file>>
  /\ pressed' = "fetch" /\ AddFormDefault
  /\ selected_location' = sel
  /\ start_date' = s /\ end_date' = e /\ selected_labels' = labels
  /\ table' = None /\ charts' = <<>>
  /\ idx' = 1 /\ records' = <<>> /\ normals' = <<>>
  /\ tim' = None /\ tim_ref' = None /\ caught' = NoExc /\ calls' = <<>>
  /\ LET verdict == Validate(s, e, labels)
     IN IF verdict = "date order"
        THEN /\ messages' = <<SelectedMessage(sel), DateOrderError>>
             /\ pc' = "idle"
        ELSE IF verdict = "empty selection"
        THEN /\ messages' = <<SelectedMessage(sel), EmptySelectionError>>
             /\ pc' = "idle"
        ELSE /\ messages' = <<SelectedMessage(sel)>>
             /\ pc' = IF labels = <<>> THEN "assemble" ELSE "observed"

\* lines 109-111
GetObserved ==
  /\ pc = "observed"
  /\ LET label == selected_labels[idx]
         code == Lookup(ELEMENT_OPTIONS, label)
         ret == GetMetData(code, FALSE)
     IN /\ calls' = Append(calls, Call(code, FALSE))
        /\ \/ /\ records' = DictSet(records, ObservedKey(label), ret.data)
              /\ tim' = ret.tim
              /\ pc' = "normal"
              /\ UNCHANGED <<messages, caught>>
           \/ \E exc \in ExcTexts :
                /\ messages' = Append(messages, CaughtMessage(exc))
                /\ caught' = exc
                /\ pc' = "idle"
                /\ UNCHANGED <<records, tim>>
  /\ UNCHANGED <<registry, pressed, addForm, fetchForm, table, charts,
                 idx, normals, tim_ref>>

\* lines 112-115, and the loop's step to the next label
GetNormal ==
  /\ pc = "normal"
  /\ LET label == selected_labels[idx]
         code == Lookup(ELEMENT_OPTIONS, label)
         ret == GetMetData(code, TRUE)
     IN /\ calls' = Append(calls, Call(code, TRUE))
        /\ \/ /\ normals' = DictSet(normals, NormalKey(label), ret.data)
              /\ tim_ref' = IF tim_ref = None THEN ToDatetime(tim) ELSE tim_ref
              /\ idx' = idx + 1
              /\ pc' = IF idx < Len(selected_labels) THEN "observed" ELSE "assemble"
              /\ UNCHANGED <<messages, caught>>
           \/ \E exc \in ExcTexts :
                /\ messages' = Append(messages, CaughtMessage(exc))
                /\ caught' = exc
                /\ pc' = "idle"
                /\ UNCHANGED <<normals, tim_ref, idx>>
  /\ UNCHANGED <<registry, pressed, addForm, fetchForm, table, charts,
                 records, tim>>

\* line 117: pd.DataFrame({**records, **normals}) needs columns of one length
DataFrame(cols) ==
  IF \A i, j \in 1..Len(cols) : Len(cols[i][2]) = Len(cols[j][2])
  THEN [ok |-> TRUE, df |-> cols, exc |-> ""]
  ELSE [ok |-> FALSE, df |-> <<>>, exc |-> "All arrays must be of the same length"]

InsertLast(df, column, value) ==
  IF HasKey(df, column)
  THEN [ok |-> FALSE, df |-> <<>>, exc |-> "cannot insert, already exists"]
  ELSE [ok |-> TRUE, df |-> Append(df, <<column, value>>), exc |-> ""]

\* line 118: df.insert(0, "date", tim_ref) refuses an existing column name
Insert(df, column, value) ==
  IF HasKey(df, column)
  THEN [ok |-> FALSE, df |-> <<>>, exc |-> "cannot insert, already exists"]
  ELSE [ok |-> TRUE, df |-> <<<<column, value>>>> \o df, exc |-> ""]

\* lines 125-137: one figure per label, the observed and the normal column
Chart(df, label) ==
  [title |-> label, x |-> "date",
   lines |-> <<ObservedKey(label), NormalKey(label)>>]

\* lines 117-137
Assemble ==
  /\ pc = "assemble"
  /\ LET made == DataFrame(DictMerge(records, normals))
         ins == IF made.ok THEN Insert(made.df, "date", tim_ref) ELSE made
     IN IF ins.ok
        THEN /\ table' = ins.df
             /\ charts' = [i \in 1..Len(selected_labels) |->
                             Chart(ins.df, selected_labels[i])]
             /\ UNCHANGED <<messages, caught>>
        ELSE /\ messages' = Append(messages, CaughtMessage(ins.exc))
             /\ caught' = ins.exc
             /\ UNCHANGED <<table, charts>>
  /\ pc' = "idle"
  /\ UNCHANGED <<registry, pressed, addForm, fetchForm,
                 idx, records, normals, tim, tim_ref, calls>>

\* the file is removed from outside the program
ExternalDelete ==
  /\ file.exists
  /\ file' = NoFile
  /\ UNCHANGED <<heap, DEFAULT_LOCATIONS, location_history, loadedFrom,
                 pressed, addForm, fetchForm, output, locals>>

Next ==
  \/ NewSession
  \/ Rerun
  \/ \E name \in Names, la \in Lats, lo \in Lons : AddLocation(name, la, lo)
  \/ \E sel \in SelectableSites(Mapping), s \in Dates, e \in Dates,
        labels \in Selections : FetchPress(sel, s, e, labels)
  \/ GetObserved
  \/ GetNormal
  \/ Assemble

Spec == Init /\ [][Next]_vars

\* the registry alone, in an environment that may remove the file
NextEnv ==
  \/ NewSession
  \/ Rerun
  \/ \E name \in Names, la \in Lats, lo \in Lons : AddLocation(name, la, lo)
  \/ ExternalDelete

SpecEnv == Init /\ [][NextEnv]_vars

\* ================================================================ claims
Shown(m) == \E i \in 1..Len(messages) : messages[i] = m
ErrorCount == Cardinality({i \in 1..Len(messages) : messages[i].kind = "error"})
ValidAdd == new_name # "" /\ new_lat # Float(0) /\ new_lon # Float(0)
Loaded ==
  LET ld == load_locations(heap, DEFAULT_LOCATIONS, file) IN ld.heap[ld.ref]

\* C1: after an add action with a non-empty name and non-zero latitude and
\* longitude, load_locations() returns a mapping in which that name maps to
\* exactly [lat, lon].
C1_AddThenLoad ==
  (pressed = "add" /\ ValidAdd) =>
     /\ HasKey(Loaded, new_name)
     /\ DictGet(Loaded, new_name) = <<new_lat, new_lon>>

C1_Witness ==
  /\ pressed = "add" /\ ValidAdd
  /\ new_name = "KOA yama1 (Seba, 1035m)"
  /\ loadedFrom = "file"

\* C2: an add action with an empty name, a zero latitude or a zero longitude
\* leaves the in-memory mapping and the location file (existence and text)
\* as they were, and shows a warning.
C2_InvalidAdd ==
  [][(pressed' = "add" /\ ~ValidAdd') =>
        /\ heap'[location_history'] = heap[location_history]
        /\ file' = file
        /\ \E i \in 1..Len(messages') : messages'[i].kind = "warning"]_vars

C2_Witness ==
  /\ pressed = "add" /\ new_name # "" /\ new_lat = Float(0) /\ new_lon # Float(0)
  /\ file.exists
  /\ Shown([kind |-> "warning", text |-> <<"enter name, latitude and longitude">>])

\* C3: in every reachable state in which locations.json does not exist,
\* load_locations() returns exactly the seven default sites with their
\* coordinates, also after add actions on a mapping obtained from the default.
C3_LoadDefault == ~file.exists => Loaded = DefaultLocations

C3_Witness ==
  /\ ~file.exists
  /\ loadedFrom = "default"
  /\ HasKey(Mapping, "Site A")
  /\ DictGet(Mapping, "KOA yama1 (Seba, 1035m)") # DictGet(DefaultLocations, "KOA yama1 (Seba, 1035m)")

\* C4: a fetch pressed with start_date >= end_date, whatever the selection,
\* issues no call to the external fetch function and shows the date-order
\* error.
C4_DateOrder ==
  (pressed = "fetch" /\ start_date >= end_date) =>
     /\ calls = <<>> /\ pc = "idle"
     /\ Shown(DateOrderError) /\ ErrorCount = 1
     /\ table = None /\ charts = <<>>

C4_Witness ==
  /\ pressed = "fetch" /\ start_date = end_date /\ Len(selected_labels) = 2
  /\ Shown(DateOrderError)

\* C5 as stated: a fetch pressed with an empty selection, for every start and
\* end date, issues no call and shows the "select at least one" error.
C5_Original ==
  (pressed = "fetch" /\ selected_labels = <<>>) =>
     /\ calls = <<>>
     /\ Shown(EmptySelectionError)

\* C5 amended: a fetch pressed with an empty selection issues no call for
\* every start and end date; it shows the "select at least one" error when
\* start_date < end_date and the date-order error alone otherwise.
C5_Amended ==
  (pressed = "fetch" /\ selected_labels = <<>>) =>
     /\ calls = <<>> /\ pc = "idle"
     /\ table = None /\ charts = <<>>
     /\ ErrorCount = 1
     /\ IF start_date < end_date THEN Shown(EmptySelectionError)
        ELSE Shown(DateOrderError)

C5_Witness ==
  /\ pressed = "fetch" /\ selected_labels = <<>> /\ start_date < end_date
  /\ Shown(EmptySelectionError)

\* C6: when one of the external fetch calls raises (the k-th of the 2N), no
\* table and no chart is shown, the run is over so that no further call is
\* issued, and exactly one error message is shown, which contains the
\* exception's text.
C6_FetchRaises ==
  caught # NoExc =>
     /\ table = None /\ charts = <<>>
     /\ pc = "idle" /\ ~ENABLED GetObserved /\ ~ENABLED GetNormal
     /\ ErrorCount = 1
     /\ \E i \in 1..Len(messages) :
          /\ messages[i].kind = "error"
          /\ caught \in Range(messages[i].text)

C6_Witness ==
  /\ caught = "timeout"
  /\ Len(selected_labels) = 2 /\ Len(calls) = 3
  /\ records # <<>> /\ normals # <<>>

\* C7: a fetch with N >= 1 selected variables whose calls all return shows a
\* table of exactly 1 + 2N columns: the date column, then the N observed
\* columns in selection order, then the N normal columns in selection order.
ExpectedColumns ==
  <<"date">>
    \o [i \in 1..Len(selected_labels) |-> selected_labels[i] \o " (AMD)"]
    \o [i \in 1..Len(selected_labels) |-> selected_labels[i] \o " (normal)"]

C7_Columns ==
  (/\ pressed = "fetch" /\ pc = "idle" /\ caught = NoExc
   /\ start_date < end_date /\ Len(selected_labels) >= 1) =>
     /\ Len(table) = 1 + 2 * Len(selected_labels)
     /\ DictKeys(table) = ExpectedColumns

C7_Witness ==
  /\ pressed = "fetch" /\ pc = "idle" /\ caught = NoExc
  /\ Len(selected_labels) = 2 /\ Len(table) = 5
  /\ selected_labels[1] = "snow depth (SD)"

\* C8 as stated: an entry of the mapping is never deleted and never edited:
\* every step keeps every name with the coordinates it had.
C8_Original ==
  [][\A i \in 1..Len(heap[location_history]) :
       LET k == heap[location_history][i][1]
       IN /\ HasKey(heap'[location_history'], k)
          /\ DictGet(heap'[location_history'], k) = heap[location_history][i][2]]_vars

\* C8 amended: an entry of the mapping is never deleted; its coordinates
\* change only in an add action that is given the same name and valid
\* coordinates, and then they become the coordinates given.
C8_Amended ==
  [][\A i \in 1..Len(heap[location_history]) :
       LET k == heap[location_history][i][1]
       IN /\ HasKey(heap'[location_history'], k)
          /\ \/ DictGet(heap'[location_history'], k) = heap[location_history][i][2]
             \/ /\ pressed' = "add" /\ ValidAdd' /\ new_name' = k
                /\ DictGet(heap'[location_history'], k) = <<new_lat', new_lon'>>]_vars

C8_Witness ==
  /\ pressed = "add" /\ ValidAdd /\ new_name = "KOA yama1 (Seba, 1035m)"
  /\ Len(Mapping) = 8
  /\ DictGet(Mapping, new_name) = <<new_lat, new_lon>>

\* C9: a fetch that passes validation issues its calls one after another in
\* this order: for each variable in selection order the observed call
\* (cli=False) and then the normal call (cli=True), all with the same window
\* and the same [lat, lat, lon, lon] box of the selected site; a run in which
\* no call fails issues exactly 2N calls, and the table exists only then.
ExpectedCalls ==
  LET point == DictGet(Mapping, selected_location)
  IN [i \in 1..(2 * Len(selected_labels)) |->
        [element |-> DictGet(ELEMENT_OPTIONS, selected_labels[(i + 1) \div 2]),
         itsu |-> <<ToString(start_date), ToString(end_date)>>,
         doko |-> <<point[1], point[1], point[2], point[2]>>,
         cli |-> (i % 2 = 0)]]

C9_CallOrder ==
  (pressed = "fetch" /\ start_date < end_date /\ selected_labels # <<>>) =>
     /\ Len(calls) <= Len(ExpectedCalls)
     /\ calls = SubSeq(ExpectedCalls, 1, Len(calls))
     /\ pc = "observed" => Len(calls) = 2 * (idx - 1)
     /\ pc = "normal" => Len(calls) = 2 * idx - 1
     /\ pc = "assemble" => calls = ExpectedCalls
     /\ (pc = "idle" /\ caught = NoExc) => (calls = ExpectedCalls /\ table # None)
     /\ table # None => calls = ExpectedCalls

C9_Witness ==
  /\ pressed = "fetch" /\ pc = "idle" /\ caught = NoExc
  /\ Len(selected_labels) = 2 /\ Len(calls) = 4
  /\ selected_location = "Site A"
  /\ table # None

\* C10: with no edits of the file from outside, in every reachable state
\* either locations.json does not exist and the mapping is the default, or
\* its text is that of the mapping; and the steps of a fetch run change
\* neither the mapping nor the file.
RegistryConsistent ==
  \/ ~file.exists /\ Mapping = DefaultLocations
  \/ file.exists /\ file.text = JsonDump(Mapping) /\ JsonLoad(file.text) = Mapping

C10_Registry ==
  /\ []RegistryConsistent
  /\ [][pressed' = "fetch" =>
          heap'[location_history'] = heap[location_history] /\ file' = file]_vars

C10_Witness ==
  /\ pressed = "fetch" /\ table # None
  /\ file.exists /\ loadedFrom = "file"
  /\ HasKey(Mapping, "Site A")

====
